---- MODULE Spec2Model ----
(***************************************************************************)
(* A model of the box ray tracer of proy2: the slab intersection of        *)
(* cube.rs, the closest-hit reduction of Scene::hit, the orbital camera of *)
(* camera.rs, the scattering decision of materials.rs and the recursive    *)
(* integrator of raytracer.rs.                                             *)
(*                                                                         *)
(* Numbers.  The f32 values of the program are modelled by exact integers  *)
(* on a grid.  Box corners and ray origins are integer points.  A ray      *)
(* direction is a non-zero vector with components in {-1, 0, 1}: the unit  *)
(* direction of the program scaled by its length, so that every plane      *)
(* crossing of the slab test is an exact quotient.  Ray parameters are     *)
(* counted in half grid steps (TScale of them to one step): the window     *)
(* start 0.001 of ray_color is then the odd value T_MIN, strictly between  *)
(* the parameter 0 of the ray origin and the first grid crossing.          *)
(***************************************************************************)
EXTENDS Integers, Sequences, FiniteSets, TLC

VARIABLES
    cube,         \* SpecCube: the box of the last Cube::hit call
    ray,          \* the ray of the call in progress
    t_min, t_max, \* the window of the call in progress
    result,       \* SpecCube: what Cube::hit returned
    cpc,          \* SpecCube: "idle", or "returned" while the record is in use
    cubes,        \* Scene.cubes
    scan,         \* Scene::hit: index of the next cube of the for loop
    closest_hit,  \* Scene::hit: local closest_hit
    closest_t,    \* Scene::hit: local closest_t
    spc,          \* Scene::hit: "idle", "scan" or "done"
    camera,       \* the Camera
    materials,    \* Raytracer.materials
    rc_pc,        \* ray_color: the position of the call in progress, one of RcPositions
    frame,        \* ray_color: the locals of the call in progress
    stack,        \* ray_color: the calls waiting for the one in progress
    color,        \* ray_color: the value being returned
    sc_call,      \* Material::scatter: the arguments of the last call
    sc_result,    \* Material::scatter: what the last call returned
    sc_pc,        \* Material::scatter: "idle", or "returned" while the result is in use
    sky_call,     \* Skybox::sample: the skybox and the direction of the last call
    sky_result,   \* Skybox::sample: the colour the last call returned
    sky_pc,       \* Skybox::sample: "idle", or "returned" while the colour is in use
    loop_pc,      \* main: the position in the loop, one of LoopPositions
    auto_rotate,  \* main: local auto_rotate
    elapsed,      \* main: last_render_time.elapsed(), in ticks, at most one second
    pixels,       \* Raytracer::render: for each row rendered so far, the camera it read
    image,        \* main: render_texture, as the cameras its rows were rendered from
    mutated,      \* main: rotate or zoom was called in this iteration
    rendered      \* main: render was called in this iteration

geoVars == <<cube, ray, t_min, t_max, result, cpc, cubes, scan, closest_hit, closest_t, spc>>
camVars == <<camera>>
rcVars == <<materials, rc_pc, frame, stack, color>>
scVars == <<sc_call, sc_result, sc_pc>>
skyVars == <<sky_call, sky_result, sky_pc>>
loopVars == <<loop_pc, auto_rotate, elapsed, pixels, image, mutated, rendered>>
nonGeoVars == <<camVars, rcVars, scVars, skyVars, loopVars>>
vars == <<geoVars, nonGeoVars>>

----------------------------------------------------------------------------
(* Bounds of the model *)

\* box corners and ray origins have coordinates in 0..GridMax
GridMax == 2
\* a scene holds at most MaxCubes boxes
MaxCubes == 2

(* Program constants, in the units of the model *)

\* half grid steps per grid step
TScale == 2
\* f32::INFINITY, above every parameter the grid can produce
INFINITY == 1000
\* the 0.001 of ray_color, between 0 and the first crossing TScale
T_MIN == 1

----------------------------------------------------------------------------
(* math_utils.rs: vectors *)

Axes == 1..3

Vec3(x, y, z) == <<x, y, z>>

Zeros == <<0, 0, 0>>

Dot(a, b) == a[1] * b[1] + a[2] * b[2] + a[3] * b[3]

Neg(a) == <<-a[1], -a[2], -a[3]>>

Add(a, b) == <<a[1] + b[1], a[2] + b[2], a[3] + b[3]>>

Sub(a, b) == <<a[1] - b[1], a[2] - b[2], a[3] - b[3]>>

Abs(x) == IF x < 0 THEN -x ELSE x

\* Option<T>: None is the empty sequence, Some(x) the sequence of x alone
None == <<>>

Some(x) == <<x>>

IsSome(o) == Len(o) = 1

Unwrap(o) == o[1]

\* a / b for a divisor of the grid, in half grid steps
ParamDiv(a, b) == IF b > 0 THEN (TScale * a) \div b ELSE (TScale * (-a)) \div (-b)

\* Ray::at: origin + t * direction, t in half grid steps
RayAt(r, t) == [i \in Axes |-> r.origin[i] + ((t * r.direction[i]) \div TScale)]

----------------------------------------------------------------------------
(* cube.rs: the box and its hit test *)

\* mutant of SetFaceNormal: the normal is never turned against the ray
SetFaceNormalNoFlip(rec, r, outward_normal) ==
    [rec EXCEPT !.front_face = Dot(r.direction, outward_normal) < 0,
                !.normal = outward_normal]

\* HitRecord::set_face_normal
SetFaceNormal(rec, r, outward_normal) ==
    LET front == Dot(r.direction, outward_normal) < 0
    IN  [rec EXCEPT !.front_face = front,
                    !.normal = IF front THEN outward_normal ELSE Neg(outward_normal)]

\* ray_dir.abs() < EPSILON: on the grid only the component 0 is below 1e-6
ParallelToSlab(ray_dir) == Abs(ray_dir) < 1

\* the state of the slab loop before the first axis
SlabStart(tmin, tmax) ==
    [t_near |-> tmin, t_far |-> tmax, hit_face |-> 0, miss |-> FALSE]

\* one iteration of the loop over the axes; miss records the early return
SlabAxis(st, c, r, axis) ==
    IF st.miss THEN st
    ELSE
    LET ray_dir  == r.direction[axis]
        ray_orig == r.origin[axis]
        min_val  == c.min[axis]
        max_val  == c.max[axis]
    IN  IF ParallelToSlab(ray_dir)
        THEN IF ray_orig < min_val \/ ray_orig > max_val
             THEN [st EXCEPT !.miss = TRUE]
             ELSE st
        ELSE
        LET t1 == ParamDiv(min_val - ray_orig, ray_dir)
            t2 == ParamDiv(max_val - ray_orig, ray_dir)
            t_min_axis == IF t1 < t2 THEN t1 ELSE t2
            t_max_axis == IF t1 < t2 THEN t2 ELSE t1
            near == IF t_min_axis > st.t_near THEN t_min_axis ELSE st.t_near
            face == IF t_min_axis > st.t_near
                    THEN (IF t1 < t2 THEN -axis ELSE axis)
                    ELSE st.hit_face
            far  == IF t_max_axis < st.t_far THEN t_max_axis ELSE st.t_far
        IN  [t_near |-> near, t_far |-> far, hit_face |-> face, miss |-> near > far]

\* the loop over the three axes
Slabs(c, r, tmin, tmax) ==
    SlabAxis(SlabAxis(SlabAxis(SlabStart(tmin, tmax), c, r, 1), c, r, 2), c, r, 3)

\* the reported parameter: t_near when the ray starts outside, else t_far
ChooseT(st, tmin) == IF st.t_near > tmin THEN st.t_near ELSE st.t_far

\* Cube::get_face_normal_and_uv; u and v are the quotients <<numerator, denominator>>
GetFaceNormalAndUv(c, point, face) ==
    LET size     == Sub(c.max, c.min)
        relative == Sub(point, c.min)
    IN  CASE Abs(face) = 1 ->
               [normal |-> IF face > 0 THEN Vec3(1, 0, 0) ELSE Vec3(-1, 0, 0),
                u |-> <<relative[3], size[3]>>, v |-> <<relative[2], size[2]>>]
          [] Abs(face) = 2 ->
               [normal |-> IF face > 0 THEN Vec3(0, 1, 0) ELSE Vec3(0, -1, 0),
                u |-> <<relative[1], size[1]>>, v |-> <<relative[3], size[3]>>]
          [] Abs(face) = 3 ->
               [normal |-> IF face > 0 THEN Vec3(0, 0, 1) ELSE Vec3(0, 0, -1),
                u |-> <<relative[1], size[1]>>, v |-> <<relative[2], size[2]>>]
          [] OTHER ->
               [normal |-> Vec3(0, 1, 0), u |-> <<0, 1>>, v |-> <<0, 1>>]

\* Cube::hit, lines 81-95: the record of the hit at parameter t on face hit_face
HitRecordAt(c, r, t, hit_face) ==
    LET hit_point == RayAt(r, t)
        f == GetFaceNormalAndUv(c, hit_point, hit_face)
        hit_record == [point |-> hit_point, normal |-> Zeros, t |-> t,
                       u |-> f.u, v |-> f.v,
                       material_index |-> c.material_index,
                       front_face |-> FALSE]
    IN  SetFaceNormal(hit_record, r, f.normal)

\* mutant of CubeHit: the slab loop runs over the whole line and the two
\* rejections against the window are missing
CubeHitWindowIgnored(c, r, tmin, tmax) ==
    LET st == Slabs(c, r, -INFINITY, INFINITY)
        t  == ChooseT(st, tmin)
    IN  IF st.miss THEN None ELSE Some(HitRecordAt(c, r, t, st.hit_face))

\* Cube::hit
CubeHit(c, r, tmin, tmax) ==
    LET st == Slabs(c, r, tmin, tmax)
        t  == ChooseT(st, tmin)
    IN  IF st.miss THEN None
        ELSE IF st.t_near > tmax \/ st.t_far < tmin THEN None
        ELSE IF t < tmin \/ t > tmax THEN None
        ELSE Some(HitRecordAt(c, r, t, st.hit_face))

----------------------------------------------------------------------------
(* The inputs of the model *)

Coords == 0..GridMax

Points == {<<x, y, z>> : x \in Coords, y \in Coords, z \in Coords}

DirComps == {-1, 0, 1}

Directions == {<<x, y, z>> : x \in DirComps, y \in DirComps, z \in DirComps} \ {Zeros}

Rays == [origin : Points, direction : Directions]

\* boxes with min < max on every axis
Boxes == {[min |-> lo, max |-> hi, material_index |-> 0] :
             <<lo, hi>> \in {p \in Points \X Points : \A i \in Axes : p[1][i] < p[2][i]}}

WindowStarts == {0, T_MIN}

WindowEnds == {TScale, INFINITY}

NoCube == [min |-> Zeros, max |-> Zeros, material_index |-> 0]

NoRay == [origin |-> Zeros, direction |-> Vec3(0, 0, 1)]

----------------------------------------------------------------------------
(* SpecCube: single calls of Cube::hit *)

\* no scene built, no call in progress
InitGeo ==
    /\ cube = NoCube
    /\ ray = NoRay
    /\ t_min = 0
    /\ t_max = INFINITY
    /\ result = None
    /\ cpc = "idle"
    /\ cubes = <<>>
    /\ scan = 1
    /\ closest_hit = None
    /\ closest_t = INFINITY
    /\ spc = "idle"

CubeHitCall ==
    /\ cpc = "idle"
    /\ \E c \in Boxes, r \in Rays, lo \in WindowStarts, hi \in WindowEnds :
        /\ cpc' = "returned"
        /\ cube' = c
        /\ ray' = r
        /\ t_min' = lo
        /\ t_max' = hi
        /\ result' = CubeHit(c, r, lo, hi)
        /\ UNCHANGED <<cubes, scan, closest_hit, closest_t, spc>>
    /\ UNCHANGED nonGeoVars

\* the record is transient: the caller drops it after use
CubeHitDrop ==
    /\ cpc = "returned"
    /\ cpc' = "idle"
    /\ cube' = NoCube
    /\ ray' = NoRay
    /\ t_min' = 0
    /\ t_max' = INFINITY
    /\ result' = None
    /\ UNCHANGED <<cubes, scan, closest_hit, closest_t, spc>>
    /\ UNCHANGED nonGeoVars

----------------------------------------------------------------------------
(* SpecScene: Scene::add_cube and Scene::hit, one loop iteration per step *)

\* the boxes a scene is built from: a slab ahead of the grid on +x, a box
\* that encloses the grid and the slab, a unit cube inside the grid, and a
\* box whose material index lies outside a table of three materials
SceneCatalog ==
    { [min |-> Vec3(3, 0, 0),    max |-> Vec3(4, 2, 2), material_index |-> 0],
      [min |-> Vec3(-1, -1, -1), max |-> Vec3(5, 4, 4), material_index |-> 1],
      [min |-> Vec3(1, 1, 1),    max |-> Vec3(2, 2, 2), material_index |-> 2],
      [min |-> Vec3(0, 1, 0),    max |-> Vec3(1, 2, 1), material_index |-> 3] }

SceneWindows == {<<T_MIN, INFINITY>>, <<0, 2 * TScale>>}

\* Scene::add_cube
AddCube ==
    /\ spc = "idle"
    /\ Len(cubes) < MaxCubes
    /\ \E c \in SceneCatalog : cubes' = Append(cubes, c)
    /\ UNCHANGED <<cube, ray, t_min, t_max, result, cpc, scan, closest_hit, closest_t, spc>>
    /\ UNCHANGED nonGeoVars

\* mutant of ScanCube: the first hit found is kept, whatever comes later
ScanCubeKeepsFirst(best, c, r, tmin) ==
    LET hit == CubeHit(c, r, tmin, best.closest_t)
    IN  IF IsSome(hit) /\ best.closest_hit = None
        THEN [closest_hit |-> hit, closest_t |-> Unwrap(hit).t]
        ELSE best

\* the body of the for loop of Scene::hit for one cube
ScanCube(best, c, r, tmin) ==
    LET hit == CubeHit(c, r, tmin, best.closest_t)
    IN  IF IsSome(hit)
        THEN [closest_hit |-> hit, closest_t |-> Unwrap(hit).t]
        ELSE best

\* Scene::hit as one function: the loop over cubes[1..n]
RECURSIVE ScanUpTo(_, _, _, _, _)
ScanUpTo(cs, n, r, tmin, tmax) ==
    IF n = 0
    THEN [closest_hit |-> None, closest_t |-> tmax]
    ELSE ScanCube(ScanUpTo(cs, n - 1, r, tmin, tmax), cs[n], r, tmin)

SceneHit(cs, r, tmin, tmax) == ScanUpTo(cs, Len(cs), r, tmin, tmax).closest_hit

\* Scene::hit is entered: closest_hit = None, closest_t = t_max
SceneHitCall ==
    /\ spc = "idle"
    /\ \E r \in Rays, w \in SceneWindows :
        /\ ray' = r
        /\ t_min' = w[1]
        /\ t_max' = w[2]
        /\ closest_t' = w[2]
    /\ closest_hit' = None
    /\ scan' = 1
    /\ spc' = "scan"
    /\ UNCHANGED <<cube, result, cpc, cubes>>
    /\ UNCHANGED nonGeoVars

\* one iteration of the for loop
SceneHitScan ==
    /\ spc = "scan"
    /\ scan <= Len(cubes)
    /\ LET best == ScanCube([closest_hit |-> closest_hit, closest_t |-> closest_t],
                            cubes[scan], ray, t_min)
       IN  /\ closest_hit' = best.closest_hit
           /\ closest_t' = best.closest_t
    /\ scan' = scan + 1
    /\ UNCHANGED <<cube, ray, t_min, t_max, result, cpc, cubes, spc>>
    /\ UNCHANGED nonGeoVars

\* the loop is over: closest_hit is returned
SceneHitReturn ==
    /\ spc = "scan"
    /\ scan > Len(cubes)
    /\ spc' = "done"
    /\ UNCHANGED <<cube, ray, t_min, t_max, result, cpc, cubes, scan, closest_hit, closest_t>>
    /\ UNCHANGED nonGeoVars

\* the caller drops the returned record
SceneHitDrop ==
    /\ spc = "done"
    /\ spc' = "idle"
    /\ ray' = NoRay
    /\ t_min' = 0
    /\ t_max' = INFINITY
    /\ closest_hit' = None
    /\ closest_t' = INFINITY
    /\ scan' = 1
    /\ UNCHANGED <<cube, result, cpc, cubes>>
    /\ UNCHANGED nonGeoVars

----------------------------------------------------------------------------
(* camera.rs: the orbital camera.  Angles are counted in steps of 0.005    *)
(* radians (the auto-rotation step of main), distances in steps of 0.5     *)
(* (one notch of the mouse wheel).                                         *)

\* std::f32::consts::PI, in angle steps
PI == 628
\* the 0.1 radians kept from either pole
PHI_MARGIN == 20
\* min_distance: 2.0
MIN_DISTANCE == 4
\* max_distance: 50.0
MAX_DISTANCE == 100
\* theta is followed while it stays within -ThetaMax..ThetaMax
ThetaMax == 2

\* f32::clamp
Clamp(x, lo, hi) == IF x < lo THEN lo ELSE IF x > hi THEN hi ELSE x

\* the position update_position computes: target + (d sin(phi) cos(theta),
\* d cos(phi), d sin(phi) sin(theta)), each product kept as the term of its
\* factors
Spherical(target, distance, theta, phi) ==
    [target |-> target,
     x |-> <<distance, <<"sin", phi>>, <<"cos", theta>>>>,
     y |-> <<distance, <<"cos", phi>>>>,
     z |-> <<distance, <<"sin", phi>>, <<"sin", theta>>>>]

\* Camera::update_position
UpdatePosition(cam) ==
    [cam EXCEPT !.position = Spherical(cam.target, cam.distance, cam.theta, cam.phi)]

\* Camera::new
CameraNew(target, distance, fov, aspect_ratio) ==
    UpdatePosition(
        [position |-> Zeros,
         target |-> target,
         up |-> Vec3(0, 1, 0),
         fov |-> fov,
         aspect_ratio |-> aspect_ratio,
         near |-> <<1, 10>>,
         far |-> 1000,
         distance |-> distance,
         theta |-> 0,
         phi |-> PI \div 4,
         min_distance |-> MIN_DISTANCE,
         max_distance |-> MAX_DISTANCE])

\* mutant of Rotate: phi is not clamped
RotateNoClamp(cam, delta_theta, delta_phi) ==
    UpdatePosition([cam EXCEPT !.theta = cam.theta + delta_theta,
                               !.phi = cam.phi + delta_phi])

\* Camera::rotate
Rotate(cam, delta_theta, delta_phi) ==
    LET turned == [cam EXCEPT !.theta = cam.theta + delta_theta,
                              !.phi = cam.phi + delta_phi]
        clamped == [turned EXCEPT !.phi = Clamp(turned.phi, PHI_MARGIN, PI - PHI_MARGIN)]
    IN  UpdatePosition(clamped)

\* mutant of Zoom: the position is not recomputed
ZoomStalePosition(cam, delta) ==
    [cam EXCEPT !.distance = Clamp(cam.distance + delta, cam.min_distance, cam.max_distance)]

\* Camera::zoom
Zoom(cam, delta) ==
    LET moved == [cam EXCEPT !.distance = cam.distance + delta]
        clamped == [moved EXCEPT
                       !.distance = Clamp(moved.distance, moved.min_distance, moved.max_distance)]
    IN  UpdatePosition(clamped)

\* the distances a camera is constructed with: 1.0, the 10.0 of main, 60.0
ConstructorDistances == {2, 20, 120}

\* mouse_delta * 0.01, the auto-rotation step, and sweeps past either pole
ThetaDeltas == {-1, 0, 1}

PhiDeltas == {-700, -50, 0, 50, 700}

\* -wheel_move * 0.5, and jumps past either end of the range
ZoomDeltas == {-200, -1, 1, 200}

\* the camera of main
MainCamera == CameraNew(Zeros, 20, 45, <<4, 3>>)

CamRotate ==
    /\ \E dt \in ThetaDeltas, dp \in PhiDeltas :
        /\ Abs(camera.theta + dt) <= ThetaMax
        /\ camera' = Rotate(camera, dt, dp)
    /\ UNCHANGED <<geoVars, rcVars, scVars, skyVars, loopVars>>

CamZoom ==
    /\ \E d \in ZoomDeltas : camera' = Zoom(camera, d)
    /\ UNCHANGED <<geoVars, rcVars, scVars, skyVars, loopVars>>

----------------------------------------------------------------------------
(* math_utils.rs: the optics.  Scalars that are not grid quantities        *)
(* (cosines, indices, colours, random draws) are fixed-point numbers in    *)
(* thousandths: ONE stands for 1.0.                                        *)

ONE == 1000

Sgn(x) == IF x > 0 THEN 1 ELSE IF x < 0 THEN -1 ELSE 0

Max2(a, b) == IF a > b THEN a ELSE b

Min2(a, b) == IF a < b THEN a ELSE b

\* a * b and a / b in thousandths, rounded toward zero
FMul(a, b) == Sgn(a) * Sgn(b) * ((Abs(a) * Abs(b)) \div ONE)

FDiv(a, b) == Sgn(a) * Sgn(b) * ((Abs(a) * ONE) \div Abs(b))

RECURSIVE IsqrtIn(_, _, _)
IsqrtIn(n, lo, hi) ==
    IF lo >= hi THEN lo
    ELSE LET mid == (lo + hi + 1) \div 2
         IN  IF mid * mid <= n THEN IsqrtIn(n, mid, hi) ELSE IsqrtIn(n, lo, mid - 1)

\* f32::sqrt of a value in thousandths
FSqrt(x) == IsqrtIn(x * ONE, 0, 2 * ONE + Abs(x))

FDot(a, b) == FMul(a[1], b[1]) + FMul(a[2], b[2]) + FMul(a[3], b[3])

Scale(k, a) == <<FMul(k, a[1]), FMul(k, a[2]), FMul(k, a[3])>>

\* a grid vector in thousandths
Fixed(a) == <<a[1] * ONE, a[2] * ONE, a[3] * ONE>>

\* Vec3::normalize of a vector in thousandths
Normalize(a) ==
    LET len == FSqrt(FDot(a, a))
    IN  <<FDiv(a[1], len), FDiv(a[2], len), FDiv(a[3], len)>>

\* the unit direction of a ray of the grid, in thousandths
UnitDirection(r) == Normalize(Fixed(r.direction))

\* the direction of the grid nearest to a vector in thousandths: a component
\* counts when it reaches tan(22.5 degrees) of the largest one
Snap(a) ==
    LET m == Max2(Abs(a[1]), Max2(Abs(a[2]), Abs(a[3])))
    IN  [i \in Axes |-> IF ONE * Abs(a[i]) >= 414 * m THEN Sgn(a[i]) ELSE 0]

\* Ray::new: the direction is normalized, which on the grid is Snap
RayNew(origin, direction) == [origin |-> origin, direction |-> Snap(direction)]

\* reflect
Reflect(incident, normal) ==
    Sub(incident, Scale(2 * FDot(incident, normal), normal))

\* refract
Refract(incident, normal, eta) ==
    LET cos_i  == -FDot(incident, normal)
        sin_t2 == FMul(FMul(eta, eta), ONE - FMul(cos_i, cos_i))
    IN  IF sin_t2 >= ONE THEN None
        ELSE LET cos_t == FSqrt(ONE - sin_t2)
             IN  Some(Add(Scale(eta, incident), Scale(FMul(eta, cos_i) - cos_t, normal)))

\* fresnel
Fresnel(cos_i, eta) ==
    LET sin_t2 == FMul(FMul(eta, eta), ONE - FMul(cos_i, cos_i))
    IN  IF sin_t2 >= ONE THEN ONE
        ELSE LET cos_t == FSqrt(ONE - sin_t2)
                 r_parallel == FDiv(FMul(eta, cos_i) - cos_t, FMul(eta, cos_i) + cos_t)
                 r_perpendicular == FDiv(cos_i - FMul(eta, cos_t), cos_i + FMul(eta, cos_t))
             IN  FMul(ONE \div 2, FMul(r_parallel, r_parallel)
                                   + FMul(r_perpendicular, r_perpendicular))

\* what rng.gen::<f32>() can return: values of [0, 1)
RngDraws == {0, 150, 500, 999}

\* what random_in_unit_sphere can return: points with squared length below 1
\* (its rejection loop ends with the first such draw)
SphereDraws ==
    {p \in {<<x, y, z>> : x \in {-500, 0, 500}, y \in {-500, 0, 500}, z \in {-500, 0, 500}} :
        FDot(p, p) < ONE}

\* Lerp for Color
Lerp(a, b, t) == Add(Scale(ONE - t, a), Scale(t, b))

\* Color::component_mul
ComponentMul(a, b) == <<FMul(a[1], b[1]), FMul(a[2], b[2]), FMul(a[3], b[3])>>

----------------------------------------------------------------------------
(* materials.rs *)

\* Material::new(name) .with_texture .with_albedo .with_properties
Material(name, texture_id, albedo, specular, transparency, reflectivity, refractive_index) ==
    [name |-> name, albedo |-> albedo, specular |-> specular,
     transparency |-> transparency, reflectivity |-> reflectivity,
     refractive_index |-> refractive_index, roughness |-> ONE \div 2,
     texture_id |-> texture_id]

\* the table of the model: the glass and the iron of create_materials, and a
\* plain diffuse material without texture
MaterialTable ==
    << Material("glass", Some("glass"), <<900, 900, 1000>>, 900, 900, 100, 1520),
       Material("iron", Some("iron_block"), <<700, 700, 800>>, 800, 0, 900, ONE),
       Material("matte", None, <<800, 800, 800>>, 100, 0, 0, ONE) >>

\* TextureManager.textures: 2 x 2 images of RGB bytes; "iron_block" is not loaded
LoadedTextures ==
    [id \in {"glass"} |->
        [width |-> 2, height |-> 2,
         pixels |-> [xy \in {0, 1} \X {0, 1} |->
                        IF xy[1] = xy[2] THEN <<255, 255, 255>> ELSE <<51, 102, 204>>]]]

\* f32::fract of the quotient q = <<numerator, denominator>>, times n, as u32
FractTimes(q, n) ==
    LET num == Abs(q[1]) - q[2] * (Abs(q[1]) \div q[2])
    IN  IF q[1] < 0 THEN 0 ELSE (num * n) \div q[2]

\* TextureManager::sample_texture
SampleTexture(textures, texture_id, u, v) ==
    IF texture_id \in DOMAIN textures
    THEN LET texture == textures[texture_id]
             x == Min2(FractTimes(u, texture.width), texture.width - 1)
             y == Min2(FractTimes(v, texture.height), texture.height - 1)
             pixel == texture.pixels[<<x, y>>]
         IN  <<(pixel[1] * ONE) \div 255, (pixel[2] * ONE) \div 255, (pixel[3] * ONE) \div 255>>
    ELSE <<ONE, 0, ONE>>

\* the jittered direction of a rough reflection
Roughen(mat, reflected, p) ==
    IF mat.roughness > 0
    THEN Normalize(Add(reflected, Scale(mat.roughness, p)))
    ELSE reflected

\* the relative index scatter uses, from the sign of the incidence cosine
Eta(mat, cos_i) ==
    IF cos_i > 0 THEN FDiv(ONE, mat.refractive_index) ELSE mat.refractive_index

\* the colour scatter starts from: the albedo, times the texture sample if
\* the material names a texture
BaseColor(mat, textures, u, v) ==
    IF IsSome(mat.texture_id)
    THEN ComponentMul(mat.albedo, SampleTexture(textures, Unwrap(mat.texture_id), u, v))
    ELSE mat.albedo

\* the branches keep their colour
AttenuationUnscaled(mat, base_color, branch) == base_color

\* the attenuation of a branch: attenuation *= self.transparency where the
\* ray is refracted, attenuation *= self.reflectivity in the pure reflection
Attenuation(mat, base_color, branch) ==
    IF branch = "refraction" THEN Scale(mat.transparency, base_color)
    ELSE IF branch = "pure reflection" THEN Scale(mat.reflectivity, base_color)
    ELSE base_color

\* a scatter that gives up where refraction is impossible
TotalInternalAbsorption(hit_point, incident, n, base_color, eta) == None

\* the fallback when refract returns None: a mirror reflection without jitter
TotalInternalReflection(hit_point, incident, n, base_color, eta) ==
    Some([scattered_ray |-> RayNew(hit_point, Reflect(incident, n)),
          attenuation |-> base_color, pdf |-> ONE,
          branch |-> "total internal reflection", eta |-> eta])

\* Material::scatter with the draws rnd of rng.gen and p of
\* random_in_unit_sphere; branch and eta record the path taken
ScatterWith(mat, r, hit_point, normal, textures, u, v, rnd, p) ==
    LET base_color == BaseColor(mat, textures, u, v)
        incident == UnitDirection(r)
        n == Fixed(normal)
        cos_i == -FDot(incident, n)
    IN  IF mat.transparency > 0 /\ mat.refractive_index # ONE
        THEN LET eta == Eta(mat, cos_i)
                 fresnel_factor == Fresnel(Abs(cos_i), eta)
                 refracted == Refract(incident, n, eta)
             IN  IF rnd < FMul(fresnel_factor, ONE - mat.transparency) + mat.reflectivity
                 THEN Some([scattered_ray |-> RayNew(hit_point, Roughen(mat, Reflect(incident, n), p)),
                            attenuation |-> Attenuation(mat, base_color, "reflection"),
                            pdf |-> ONE, branch |-> "reflection", eta |-> eta])
                 ELSE IF IsSome(refracted)
                 THEN Some([scattered_ray |-> RayNew(hit_point, Unwrap(refracted)),
                            attenuation |-> Attenuation(mat, base_color, "refraction"),
                            pdf |-> ONE, branch |-> "refraction", eta |-> eta])
                 ELSE TotalInternalReflection(hit_point, incident, n,
                          Attenuation(mat, base_color, "total internal reflection"), eta)
        ELSE IF mat.reflectivity > 0
        THEN Some([scattered_ray |-> RayNew(hit_point, Roughen(mat, Reflect(incident, n), p)),
                   attenuation |-> Attenuation(mat, base_color, "pure reflection"),
                   pdf |-> ONE, branch |-> "pure reflection", eta |-> ONE])
        ELSE Some([scattered_ray |-> RayNew(hit_point, Normalize(Add(n, p))),
                   attenuation |-> Attenuation(mat, base_color, "diffuse"),
                   pdf |-> ONE, branch |-> "diffuse", eta |-> ONE])

\* Material::scatter: every result the random draws allow
Scatter(mat, r, hit_point, normal, textures, u, v) ==
    {ScatterWith(mat, r, hit_point, normal, textures, u, v, rnd, p) :
        rnd \in RngDraws, p \in SphereDraws}

\* the materials scatter is called on: with and without texture, loaded or
\* not, opaque and transparent, dull and reflective, with refractive index
\* 1.0, above and below it, smooth and rough
ScatterMaterials ==
    {[Material("probe", tex, <<900, 900, 1000>>, 100, tr, rf, ri) EXCEPT !.roughness = ro] :
        tex \in {None, Some("glass"), Some("iron_block")},
        tr \in {0, 900}, rf \in {0, 100}, ri \in {ONE, 1520, 660}, ro \in {0, ONE \div 2}}

\* the normals scatter is handed: of a top face and of a side face
FaceNormals == {Vec3(0, 1, 0), Vec3(-1, 0, 0)}

\* the directions of the incoming rays: those of the plane z = 0
IncomingDirections == {d \in Directions : d[3] = 0}

\* texture coordinates as quotients
ScatterUvs == {<<0, 1>>, <<1, 2>>}

NoScatterCall ==
    [mat |-> Material("", None, Zeros, 0, 0, 0, ONE), ray |-> NoRay,
     hit_point |-> Zeros, normal |-> Zeros, u |-> <<0, 1>>, v |-> <<0, 1>>]

\* material.scatter(ray, hit_point, normal, texture_manager, u, v)
ScatterCall ==
    /\ sc_pc = "idle"
    /\ \E mat \in ScatterMaterials, d \in IncomingDirections, normal \in FaceNormals, uv \in ScatterUvs :
          LET r == [origin |-> Zeros, direction |-> d]
          IN  /\ sc_call' = [mat |-> mat, ray |-> r, hit_point |-> Vec3(1, 1, 1),
                             normal |-> normal, u |-> uv, v |-> uv]
              /\ sc_result' \in Scatter(mat, r, Vec3(1, 1, 1), normal, LoadedTextures, uv, uv)
    /\ sc_pc' = "returned"
    /\ UNCHANGED <<geoVars, camVars, rcVars, skyVars, loopVars>>

\* the caller is done with the result
ScatterDrop ==
    /\ sc_pc = "returned"
    /\ sc_pc' = "idle"
    /\ sc_call' = NoScatterCall
    /\ sc_result' = None
    /\ UNCHANGED <<geoVars, camVars, rcVars, skyVars, loopVars>>

----------------------------------------------------------------------------
(* skybox.rs *)

\* Skybox::new
SkyboxNew ==
    [top_color |-> <<500, 700, 1000>>,
     horizon_color |-> <<800, 900, 1000>>,
     bottom_color |-> <<600, 800, 900>>,
     sun_direction |-> Normalize(<<300, 600, 400>>),
     sun_color |-> <<1000, 900, 700>>,
     sun_size |-> 20]

\* a gradient whose lower half forgets to stretch t to [0, 1]
SkyGradientUnstretched(sky, t) ==
    IF t > ONE \div 2
    THEN Lerp(sky.horizon_color, sky.top_color, FMul(t - ONE \div 2, 2 * ONE))
    ELSE Lerp(sky.bottom_color, sky.horizon_color, t)

\* the vertical gradient of Skybox::sample: bottom to horizon below the
\* midpoint t = 0.5, horizon to top above it
SkyGradient(sky, t) ==
    IF t > ONE \div 2
    THEN Lerp(sky.horizon_color, sky.top_color, FMul(t - ONE \div 2, 2 * ONE))
    ELSE Lerp(sky.bottom_color, sky.horizon_color, FMul(t, 2 * ONE))

\* Skybox::sample of a direction in thousandths
SkyboxSample(sky, direction) ==
    LET dir == Normalize(direction)
        t == FMul(dir[2] + ONE, ONE \div 2)
        sky_color == SkyGradient(sky, t)
        sun_dot == FDot(dir, sky.sun_direction)
        glow_size == FMul(sky.sun_size, 3 * ONE)
    IN  IF sun_dot > ONE - sky.sun_size
        THEN LET x == FDiv(sun_dot - (ONE - sky.sun_size), sky.sun_size)
             IN  Lerp(sky_color, sky.sun_color, FMul(x, x))
        ELSE IF sun_dot > ONE - glow_size
        THEN LET x == FDiv(sun_dot - (ONE - glow_size), glow_size)
             IN  Lerp(sky_color, sky.sun_color, FMul(FSqrt(x), 300))
        ELSE sky_color

\* the skyboxes sample is called on: the one of Skybox::new, and one whose
\* sun stands on the horizon
Skyboxes == {SkyboxNew, [SkyboxNew EXCEPT !.sun_direction = <<ONE, 0, 0>>]}

\* the directions sample is called with, in thousandths, not normalized
SkyDirections ==
    {<<x, y, z>> : x \in {-ONE, -ONE \div 2, 0, ONE \div 2, ONE},
                   y \in {-ONE, -ONE \div 2, 0, ONE \div 2, ONE},
                   z \in {-ONE, -ONE \div 2, 0, ONE \div 2, ONE}} \ {Zeros}

NoSkyCall == [sky |-> SkyboxNew, direction |-> Zeros]

\* self.skybox.sample(direction)
SkyboxSampleCall ==
    /\ sky_pc = "idle"
    /\ \E sky \in Skyboxes, direction \in SkyDirections :
          /\ sky_call' = [sky |-> sky, direction |-> direction]
          /\ sky_result' = SkyboxSample(sky, direction)
    /\ sky_pc' = "returned"
    /\ UNCHANGED <<geoVars, camVars, rcVars, scVars, loopVars>>

\* the caller is done with the colour
SkyboxSampleDrop ==
    /\ sky_pc = "returned"
    /\ sky_pc' = "idle"
    /\ sky_call' = NoSkyCall
    /\ sky_result' = Zeros
    /\ UNCHANGED <<geoVars, camVars, rcVars, scVars, loopVars>>

----------------------------------------------------------------------------
(* raytracer.rs: ray_color, one step of a call per action.  frame is the   *)
(* call in progress, stack the calls waiting for it, innermost last.       *)
(* frame.events lists what the call has consulted so far.                  *)

\* ray_color is called with depths up to MaxDepth
MaxDepth == 2

Black == Zeros

\* the scenes the integrator runs on: the glass slab alone, the slab inside
\* the iron room, and the box whose material is missing from the table next
\* to the matte box and in front of the slab
GlassSlab == [min |-> Vec3(3, 0, 0), max |-> Vec3(4, 2, 2), material_index |-> 0]

IronRoom == [min |-> Vec3(-1, -1, -1), max |-> Vec3(5, 4, 4), material_index |-> 1]

MatteBox == [min |-> Vec3(1, 1, 1), max |-> Vec3(2, 2, 2), material_index |-> 2]

StrayBox == [min |-> Vec3(0, 1, 0), max |-> Vec3(1, 2, 1), material_index |-> 3]

RayScenes ==
    { <<GlassSlab>>, <<GlassSlab, IronRoom>>, <<MatteBox, StrayBox>>, <<StrayBox, GlassSlab>> }

\* the rays render_pixel asks about: the eye stands on the floor plane z = 0
EyePoints == {p \in Points : p[3] = 0}

CameraRays == [origin : EyePoints, direction : Directions]

RcPositions == {"idle", "entry", "hit", "scattered", "resumed", "ret", "done", "panic"}

NoFrame == [ray |-> NoRay, depth |-> 0, hit |-> None, scat |-> None, events |-> {}]

\* the locals of a call that has just been entered
NewFrame(r, depth) == [ray |-> r, depth |-> depth, hit |-> None, scat |-> None, events |-> {}]

\* a bounds test that lets the index just past the table through
InBoundsInclusive(index, table) == index <= Len(table)

\* hit.material_index < self.materials.len(); indices count from 0
InBounds(index, table) == index < Len(table)

\* &self.materials[index]
MaterialAt(table, index) == table[index + 1]

\* a recursion that does not count down
ChildDepthSame(depth) == depth

\* the depth handed to the recursive call
ChildDepth(depth) == depth - 1

\* render_pixel calls ray_color(ray, max_depth)
RayColorCall ==
    /\ rc_pc = "idle"
    /\ \E r \in CameraRays, d \in 0..MaxDepth : frame' = NewFrame(r, d)
    /\ stack' = <<>>
    /\ color' = Black
    /\ rc_pc' = "entry"
    /\ UNCHANGED <<materials, geoVars, camVars, scVars, skyVars, loopVars>>

\* if depth == 0 { return Color::zeros(); }
RcDepthZero ==
    /\ rc_pc = "entry"
    /\ frame.depth = 0
    /\ color' = Black
    /\ rc_pc' = "ret"
    /\ UNCHANGED <<frame, stack, materials, geoVars, camVars, scVars, skyVars, loopVars>>

\* self.scene.hit(ray, 0.001, f32::INFINITY)
RcSceneHit ==
    /\ rc_pc = "entry"
    /\ frame.depth # 0
    /\ frame' = [frame EXCEPT !.hit = SceneHit(cubes, frame.ray, T_MIN, INFINITY),
                              !.events = @ \cup {"scene"}]
    /\ rc_pc' = "hit"
    /\ UNCHANGED <<stack, color, materials, geoVars, camVars, scVars, skyVars, loopVars>>

\* no hit: self.skybox.sample(ray.direction)
RcMiss ==
    /\ rc_pc = "hit"
    /\ frame.hit = None
    /\ color' = SkyboxSample(SkyboxNew, UnitDirection(frame.ray))
    /\ frame' = [frame EXCEPT !.events = @ \cup {"skybox"}]
    /\ rc_pc' = "ret"
    /\ UNCHANGED <<stack, materials, geoVars, camVars, scVars, skyVars, loopVars>>

\* a hit whose material index fails the bounds test: return Color::zeros()
RcNoMaterial ==
    /\ rc_pc = "hit"
    /\ IsSome(frame.hit)
    /\ ~InBounds(Unwrap(frame.hit).material_index, materials)
    /\ color' = Black
    /\ rc_pc' = "ret"
    /\ UNCHANGED <<frame, stack, materials, geoVars, camVars, scVars, skyVars, loopVars>>

\* the material is looked up and scatter is called; an index past the table
\* would panic, a scatter of None returns black
RcScatter ==
    /\ rc_pc = "hit"
    /\ IsSome(frame.hit)
    /\ InBounds(Unwrap(frame.hit).material_index, materials)
    /\ LET hit == Unwrap(frame.hit)
       IN  IF hit.material_index + 1 \notin DOMAIN materials
           THEN /\ rc_pc' = "panic"
                /\ frame' = [frame EXCEPT !.events = @ \cup {"index"}]
                /\ UNCHANGED color
           ELSE \E sr \in Scatter(MaterialAt(materials, hit.material_index), frame.ray,
                                  hit.point, hit.normal, LoadedTextures, hit.u, hit.v) :
                    /\ frame' = [frame EXCEPT !.scat = sr,
                                              !.events = @ \cup {"index", "scatter"}]
                    /\ IF IsSome(sr)
                       THEN rc_pc' = "scattered" /\ UNCHANGED color
                       ELSE rc_pc' = "ret" /\ color' = Black
    /\ UNCHANGED <<stack, materials, geoVars, camVars, scVars, skyVars, loopVars>>

\* self.ray_color(&scatter_result.scattered_ray, depth - 1) is entered
RcRecurse ==
    /\ rc_pc = "scattered"
    /\ stack' = Append(stack, [frame EXCEPT !.events = @ \cup {"recurse"}])
    /\ frame' = NewFrame(Unwrap(frame.scat).scattered_ray, ChildDepth(frame.depth))
    /\ rc_pc' = "entry"
    /\ UNCHANGED <<color, materials, geoVars, camVars, scVars, skyVars, loopVars>>

\* a call returns: to the call waiting for it, which resumes after its
\* recursive call, or to render_pixel
RcReturn ==
    /\ rc_pc = "ret"
    /\ IF stack = <<>>
       THEN /\ rc_pc' = "done"
            /\ UNCHANGED <<frame, stack>>
       ELSE /\ frame' = stack[Len(stack)]
            /\ stack' = SubSeq(stack, 1, Len(stack) - 1)
            /\ rc_pc' = "resumed"
    /\ UNCHANGED <<color, materials, geoVars, camVars, scVars, skyVars, loopVars>>

\* return scatter_result.attenuation.component_mul(&scattered_color)
RcCombine ==
    /\ rc_pc = "resumed"
    /\ color' = ComponentMul(Unwrap(frame.scat).attenuation, color)
    /\ rc_pc' = "ret"
    /\ UNCHANGED <<frame, stack, materials, geoVars, camVars, scVars, skyVars, loopVars>>

\* render_pixel adds the colour to its sum and the call is over
RcFinish ==
    /\ rc_pc = "done"
    /\ rc_pc' = "idle"
    /\ frame' = NoFrame
    /\ color' = Black
    /\ UNCHANGED <<stack, materials, geoVars, camVars, scVars, skyVars, loopVars>>

RcStep ==
    \/ RcDepthZero
    \/ RcSceneHit
    \/ RcMiss
    \/ RcNoMaterial
    \/ RcScatter
    \/ RcRecurse
    \/ RcReturn
    \/ RcCombine
    \/ RcFinish

----------------------------------------------------------------------------
(* main.rs: the loop of main, one statement group per action.  Time is the *)
(* value of last_render_time.elapsed() in ticks; at TicksPerSecond and     *)
(* beyond, as_secs() >= 1 holds, so the count stops there.                 *)

\* ticks to one second
TicksPerSecond == 2

\* rows of the rendered image
RenderRows == 2

LoopPositions == {"top", "mouse", "wheel", "auto", "check", "render", "draw", "closed"}

\* a mutation that leaves last_render_time alone
ForceRenderForgotten(e) == e

\* last_render_time = Instant::now() - Duration::from_secs(1)
ForceRender(e) == TicksPerSecond

\* mouse_delta * 0.01 as <<delta_theta, delta_phi>>: a still mouse, and drags
\* past either pole
MouseDeltas == {<<0, 0>>, <<1, 700>>, <<-1, -700>>}

\* -wheel_move * 0.5: scrolls past either end of the range
WheelDeltas == {-200, 200}

\* the top of the loop: window_should_close, the keys SPACE and R; since the
\* last iteration a tick may have passed
LoopTop ==
    /\ loop_pc = "top"
    /\ \E close \in BOOLEAN, space \in BOOLEAN, key_r \in BOOLEAN, tick \in {0, 1} :
          IF close
          THEN /\ loop_pc' = "closed"
               /\ UNCHANGED <<auto_rotate, elapsed>>
          ELSE /\ loop_pc' = "mouse"
               /\ auto_rotate' = IF space THEN ~auto_rotate ELSE auto_rotate
               /\ elapsed' = IF key_r THEN ForceRender(elapsed)
                             ELSE IF elapsed + tick > TicksPerSecond THEN TicksPerSecond
                             ELSE elapsed + tick
    /\ mutated' = FALSE
    /\ rendered' = FALSE
    /\ UNCHANGED <<pixels, image, camVars, geoVars, rcVars, scVars, skyVars>>

\* if is_mouse_button_down(LEFT) { camera.rotate(..); last_render_time = .. }
LoopMouse ==
    /\ loop_pc = "mouse"
    /\ \/ \E d \in MouseDeltas :
            /\ Abs(camera.theta + d[1]) <= ThetaMax
            /\ camera' = Rotate(camera, d[1], d[2])
            /\ elapsed' = ForceRender(elapsed)
            /\ mutated' = TRUE
       \/ UNCHANGED <<camera, elapsed, mutated>>
    /\ loop_pc' = "wheel"
    /\ UNCHANGED <<auto_rotate, pixels, image, rendered, geoVars, rcVars, scVars, skyVars>>

\* if wheel_move != 0.0 { camera.zoom(-wheel_move * 0.5); last_render_time = .. }
LoopWheel ==
    /\ loop_pc = "wheel"
    /\ \/ \E d \in WheelDeltas :
            /\ camera' = Zoom(camera, d)
            /\ elapsed' = ForceRender(elapsed)
            /\ mutated' = TRUE
       \/ UNCHANGED <<camera, elapsed, mutated>>
    /\ loop_pc' = "auto"
    /\ UNCHANGED <<auto_rotate, pixels, image, rendered, geoVars, rcVars, scVars, skyVars>>

\* if auto_rotate { camera.rotate(0.005, 0.0); last_render_time = .. }
LoopAuto ==
    /\ loop_pc = "auto"
    /\ IF auto_rotate
       THEN /\ camera.theta + 1 <= ThetaMax
            /\ camera' = Rotate(camera, 1, 0)
            /\ elapsed' = ForceRender(elapsed)
            /\ mutated' = TRUE
       ELSE UNCHANGED <<camera, elapsed, mutated>>
    /\ loop_pc' = "check"
    /\ UNCHANGED <<auto_rotate, pixels, image, rendered, geoVars, rcVars, scVars, skyVars>>

\* if last_render_time.elapsed().as_secs() >= 1 { .. raytracer.render(&camera, ..)
LoopCheck ==
    /\ loop_pc = "check"
    /\ IF elapsed >= TicksPerSecond
       THEN loop_pc' = "render" /\ pixels' = <<>> /\ rendered' = TRUE
       ELSE loop_pc' = "draw" /\ UNCHANGED <<pixels, rendered>>
    /\ UNCHANGED <<auto_rotate, elapsed, image, mutated, camVars, geoVars, rcVars, scVars, skyVars>>

\* Raytracer::render: one row of render_pixel calls, each asking the camera
\* for its rays
RenderRow ==
    /\ loop_pc = "render"
    /\ Len(pixels) < RenderRows
    /\ pixels' = Append(pixels, camera)
    /\ UNCHANGED <<loop_pc, auto_rotate, elapsed, image, mutated, rendered,
                   camVars, geoVars, rcVars, scVars, skyVars>>

\* render has returned: the texture is updated and
\* last_render_time = Instant::now()
LoopRendered ==
    /\ loop_pc = "render"
    /\ Len(pixels) = RenderRows
    /\ image' = pixels
    /\ elapsed' = 0
    /\ loop_pc' = "draw"
    /\ UNCHANGED <<auto_rotate, pixels, mutated, rendered, camVars, geoVars, rcVars, scVars, skyVars>>

\* the drawing of the texture and of the text
LoopDraw ==
    /\ loop_pc = "draw"
    /\ loop_pc' = "top"
    /\ UNCHANGED <<auto_rotate, elapsed, pixels, image, mutated, rendered,
                   camVars, geoVars, rcVars, scVars, skyVars>>

----------------------------------------------------------------------------
(* The specifications *)

\* Raytracer::new and add_material: the table is set, no call in progress
\* no call of Material::scatter in progress
InitSc ==
    /\ sc_call = NoScatterCall
    /\ sc_result = None
    /\ sc_pc = "idle"

\* no call of Skybox::sample in progress
InitSky ==
    /\ sky_call = NoSkyCall
    /\ sky_result = Zeros
    /\ sky_pc = "idle"

\* main is not running
InitNoLoop ==
    /\ loop_pc = "closed"
    /\ auto_rotate = TRUE
    /\ elapsed = 0
    /\ pixels = <<>>
    /\ image = <<>>
    /\ mutated = FALSE
    /\ rendered = FALSE

\* no call of Material::scatter or Skybox::sample in progress
InitFns == InitSc /\ InitSky

InitRc ==
    /\ InitFns
    /\ InitNoLoop
    /\ materials = MaterialTable
    /\ rc_pc = "idle"
    /\ frame = NoFrame
    /\ stack = <<>>
    /\ color = Black

InitCube == InitGeo /\ camera = MainCamera /\ InitRc

NextCube == CubeHitCall \/ CubeHitDrop

SpecCube == InitCube /\ [][NextCube]_vars

InitScene == InitGeo /\ camera = MainCamera /\ InitRc

NextScene == AddCube \/ SceneHitCall \/ SceneHitScan \/ SceneHitReturn \/ SceneHitDrop

SpecScene == InitScene /\ [][NextScene]_vars

InitCamera ==
    /\ InitGeo
    /\ InitRc
    /\ \E d \in ConstructorDistances : camera = CameraNew(Zeros, d, 45, <<4, 3>>)

NextCamera == CamRotate \/ CamZoom

SpecCamera == InitCamera /\ [][NextCamera]_vars

InitScatter == InitGeo /\ camera = MainCamera /\ InitRc

NextScatter == ScatterCall \/ ScatterDrop

SpecScatter == InitScatter /\ [][NextScatter]_vars

InitSkybox == InitGeo /\ camera = MainCamera /\ InitRc

NextSkybox == SkyboxSampleCall \/ SkyboxSampleDrop

SpecSkybox == InitSkybox /\ [][NextSkybox]_vars

\* main before its loop: the camera of main, an image that is still black,
\* last_render_time = Instant::now(), auto_rotate = true
InitLoop ==
    /\ InitGeo
    /\ materials = MaterialTable
    /\ rc_pc = "idle"
    /\ frame = NoFrame
    /\ stack = <<>>
    /\ color = Black
    /\ InitFns
    /\ camera = MainCamera
    /\ loop_pc = "top"
    /\ auto_rotate = TRUE
    /\ elapsed = 0
    /\ pixels = <<>>
    /\ image = <<>>
    /\ mutated = FALSE
    /\ rendered = FALSE

NextLoop ==
    \/ LoopTop
    \/ LoopMouse
    \/ LoopWheel
    \/ LoopAuto
    \/ LoopCheck
    \/ RenderRow
    \/ LoopRendered
    \/ LoopDraw

SpecLoop == InitLoop /\ [][NextLoop]_vars

\* setup_raytracer: the scene is built before the first ray is traced
InitRay ==
    /\ cube = NoCube
    /\ ray = NoRay
    /\ t_min = 0
    /\ t_max = INFINITY
    /\ result = None
    /\ cpc = "idle"
    /\ cubes \in RayScenes
    /\ scan = 1
    /\ closest_hit = None
    /\ closest_t = INFINITY
    /\ spc = "idle"
    /\ camera = MainCamera
    /\ InitRc

NextRay == RayColorCall \/ RcStep

SpecRay == InitRay /\ [][NextRay]_vars

\* ray_color has no way to wait: a call in progress moves on to its next
\* position.  Every step of RcStep changes rc_pc and some step of RcStep is
\* possible at every position of a call in progress, so this is weak
\* fairness of RcStep, stated on the position alone.
RcMoves == rc_pc \notin {"idle", "panic"} /\ rc_pc' \in RcPositions

FairSpecRay == SpecRay /\ WF_rc_pc(RcMoves)


----------------------------------------------------------------------------
(* Geometry the claims speak of, stated without the slab test *)

\* p lies on the surface of box c
OnSurface(c, p) ==
    /\ \A i \in Axes : c.min[i] <= p[i] /\ p[i] <= c.max[i]
    /\ \E i \in Axes : p[i] = c.min[i] \/ p[i] = c.max[i]

\* p lies strictly inside box c
StrictlyInside(c, p) == \A i \in Axes : c.min[i] < p[i] /\ p[i] < c.max[i]

\* the parameters at which a ray of the grid can meet a box of the model
CrossingParams == {TScale * k : k \in 0..(4 * (GridMax + 1))}

\* the parameters from lo on at which ray r is on the surface of box c
SurfaceParams(c, r, lo) ==
    {t \in CrossingParams : t >= lo /\ OnSurface(c, RayAt(r, t))}

----------------------------------------------------------------------------
(* C1..C4: the hit tests *)

\* C1 (as claimed): while Scene::hit scans the cubes, a cube whose surface the
\* ray meets only at parameters beyond the current best t never replaces the
\* current best hit, also when the ray starts inside that cube.
C1_FartherCubeNeverReplaces ==
    [][ ( /\ spc = "scan"
          /\ scan <= Len(cubes)
          /\ IsSome(closest_hit)
          /\ SurfaceParams(cubes[scan], ray, t_min) # {}
          /\ \A t \in SurfaceParams(cubes[scan], ray, t_min) : t > closest_t )
        => closest_hit' = closest_hit ]_vars

\* the parameters of the hits the cubes of the scene report one by one in the
\* full window
CubeHitParams ==
    {Unwrap(CubeHit(cubes[i], ray, t_min, t_max)).t :
        i \in {j \in 1..Len(cubes) : IsSome(CubeHit(cubes[j], ray, t_min, t_max))}}

\* C2: Scene::hit returns none exactly when no cube's own hit test in the
\* window returns a hit, and otherwise a record whose t is the least t of the
\* cubes' own hits in that window.
C2_SceneHitIsLeastCubeHit ==
    spc = "done" =>
        IF CubeHitParams = {}
        THEN closest_hit = None
        ELSE /\ IsSome(closest_hit)
             /\ Unwrap(closest_hit).t \in CubeHitParams
             /\ \A t \in CubeHitParams : Unwrap(closest_hit).t <= t

\* witness of C2: two cubes hit at different parameters, the later cube of
\* the scene being the nearer one, and the scan has returned
C2_Witness ==
    /\ spc = "done"
    /\ Len(cubes) = 2
    /\ IsSome(CubeHit(cubes[1], ray, t_min, t_max))
    /\ IsSome(CubeHit(cubes[2], ray, t_min, t_max))
    /\ Unwrap(CubeHit(cubes[2], ray, t_min, t_max)).t
           < Unwrap(CubeHit(cubes[1], ray, t_min, t_max)).t
    /\ IsSome(closest_hit)

\* C3: every record Cube::hit returns has t_min <= t <= t_max.
C3_HitWithinWindow ==
    (cpc = "returned" /\ IsSome(result)) =>
        t_min <= Unwrap(result).t /\ Unwrap(result).t <= t_max

\* witness of C3: a hit of a ray parallel to two axes that starts strictly
\* inside the box, in a window that ends before infinity
C3_Witness ==
    /\ cpc = "returned"
    /\ IsSome(result)
    /\ Cardinality({i \in Axes : ray.direction[i] = 0}) = 2
    /\ StrictlyInside(cube, ray.origin)
    /\ t_max < INFINITY

----------------------------------------------------------------------------
(* C7..C9: the camera *)

\* C7: in every state reachable from Camera::new by rotate and zoom calls,
\* phi lies in [0.1, pi - 0.1].
C7_PhiClamped ==
    PHI_MARGIN <= camera.phi /\ camera.phi <= PI - PHI_MARGIN

\* witness of C7: a rotate call swept phi to the upper end of the range
C7_Witness == camera.phi = PI - PHI_MARGIN /\ camera.theta # 0

\* C8 (as claimed): in every state reachable from Camera::new(target,
\* distance, fov, aspect) by rotate and zoom calls, for any constructor
\* distance, min_distance <= distance <= max_distance.
C8_DistanceClamped ==
    camera.min_distance <= camera.distance /\ camera.distance <= camera.max_distance

\* C9: after Camera::new and after every rotate or zoom call the cached
\* position is the spherical-coordinate function of the current target,
\* distance, theta and phi.
C9_PositionFresh ==
    camera.position = Spherical(camera.target, camera.distance, camera.theta, camera.phi)

\* witness of C9: both angles and the distance have moved away from what the
\* constructor set
C9_Witness ==
    /\ camera.theta # 0
    /\ camera.phi # PI \div 4
    /\ camera.distance \notin ConstructorDistances

----------------------------------------------------------------------------
(* Claims about ray_color *)

\* the depth ray_color was first called with
RootDepth == IF stack = <<>> THEN frame.depth ELSE stack[1].depth

\* the calls of the chain in progress, outermost first
CallChain == IF rc_pc = "idle" THEN <<>> ELSE Append(stack, frame)

\* the material struck by the hit of the call in progress
StruckMaterial == materials[Unwrap(frame.hit).material_index + 1]

\* C5: ray_color terminates for every ray, scene and depth: every recursive
\* call is entered with the caller's depth minus one, so the i-th call of a
\* chain runs at the root depth minus i and never below zero; at most as
\* many calls of a chain have scattered as the root depth; a call at depth 0
\* returns black having consulted neither scene, materials nor skybox; and
\* every call that is entered is eventually returned from.
C5_RayColorTerminates ==
    /\ [][ Len(stack') = Len(stack) + 1
             => /\ frame'.depth = frame.depth - 1
                /\ stack'[Len(stack')].depth = frame.depth ]_vars
    /\ [](/\ \A i \in 1..Len(CallChain) :
                /\ CallChain[i].depth = RootDepth - (i - 1)
                /\ CallChain[i].depth >= 0
          /\ Cardinality({i \in 1..Len(CallChain) : "scatter" \in CallChain[i].events})
                <= RootDepth
          /\ (rc_pc \in {"ret", "done"} /\ frame.depth = 0)
                => (color = Black /\ frame.events = {}))
    /\ ((rc_pc = "entry") ~> (rc_pc = "done"))

\* a chain that has scattered at every depth and reached the cutoff
C5_Witness ==
    /\ rc_pc = "ret"
    /\ frame.depth = 0
    /\ RootDepth = MaxDepth
    /\ Len(stack) = MaxDepth
    /\ \A i \in 1..Len(stack) : "scatter" \in stack[i].events

\* C6: when ray_color has scattered at a hit on a material with
\* transparency > 0 and refractive_index # 1, the relative index used is
\* 1/refractive_index for a hit with front_face = true and refractive_index
\* for a hit with front_face = false.
C6_EtaInvertedOnExit ==
    (/\ rc_pc = "scattered"
     /\ StruckMaterial.transparency > 0
     /\ StruckMaterial.refractive_index # ONE)
        => Unwrap(frame.scat).eta =
              IF Unwrap(frame.hit).front_face
              THEN FDiv(ONE, StruckMaterial.refractive_index)
              ELSE StruckMaterial.refractive_index

\* C10: a hit whose material_index is outside the material table makes
\* ray_color return black: the table is not indexed (no panic), scatter is
\* not called and there is no recursive call; the scene query is all the
\* call has done.
C10_MissingMaterialIsBlack ==
    /\ rc_pc # "panic"
    /\ (/\ rc_pc \notin {"idle", "entry"}
        /\ IsSome(frame.hit)
        /\ Unwrap(frame.hit).material_index >= Len(materials))
          => /\ rc_pc \in {"hit", "ret", "done"}
             /\ frame.events = {"scene"}
             /\ frame.scat = None
             /\ rc_pc \in {"ret", "done"} => color = Black

\* a scattered ray has struck the box with the missing material and the
\* call has returned
C10_Witness ==
    /\ rc_pc = "ret"
    /\ IsSome(frame.hit)
    /\ Unwrap(frame.hit).material_index >= Len(materials)
    /\ Len(stack) > 0

----------------------------------------------------------------------------
(* Claims about Material::scatter *)

\* the material of the last call of scatter is a dielectric for scatter
ScDielectric == sc_call.mat.transparency > 0 /\ sc_call.mat.refractive_index # ONE

\* the one factor the claim gives each branch, in thousandths
BranchFactor(mat, branch) ==
    IF branch = "refraction" THEN mat.transparency
    ELSE IF branch = "pure reflection" THEN mat.reflectivity
    ELSE ONE

\* C11: the attenuation scatter returns is the base colour (the albedo,
\* times the texture sample if the material has a texture) times exactly
\* one factor: transparency when a dielectric refracts, reflectivity in the
\* pure reflection of a material that is not a dielectric and has
\* reflectivity > 0, and 1 for the reflection of a dielectric, for the
\* fallback of total internal reflection and for the diffuse scatter.
C11_AttenuationByBranch ==
    (sc_pc = "returned" /\ IsSome(sc_result)) =>
        LET res == Unwrap(sc_result)
            mat == sc_call.mat
            base == BaseColor(mat, LoadedTextures, sc_call.u, sc_call.v)
            k == BranchFactor(mat, res.branch)
        IN  /\ res.branch \in {"reflection", "refraction", "total internal reflection",
                               "pure reflection", "diffuse"}
            /\ (res.branch \in {"reflection", "refraction", "total internal reflection"})
                  <=> ScDielectric
            /\ (res.branch = "pure reflection") <=> (~ScDielectric /\ mat.reflectivity > 0)
            /\ res.attenuation =
                  <<FMul(k, base[1]), FMul(k, base[2]), FMul(k, base[3])>>

\* a textured glass has refracted: the attenuation is no longer the base colour
C11_Witness ==
    /\ sc_pc = "returned"
    /\ IsSome(sc_result)
    /\ Unwrap(sc_result).branch = "refraction"
    /\ IsSome(sc_call.mat.texture_id)
    /\ Unwrap(sc_result).attenuation
          # BaseColor(sc_call.mat, LoadedTextures, sc_call.u, sc_call.v)

\* C12: scatter never returns "no scatter": for every material, incoming
\* ray, normal and random draw the result is Some, with a ray that starts
\* at the hit point and an attenuation.
C12_ScatterAlwaysSome ==
    sc_pc = "returned" =>
        /\ IsSome(sc_result)
        /\ Unwrap(sc_result).scattered_ray.origin = sc_call.hit_point
        /\ Unwrap(sc_result).scattered_ray.direction \in Directions
        /\ Unwrap(sc_result).attenuation \in Seq(0..ONE)

\* refraction was impossible and scatter still returned a ray
C12_Witness ==
    /\ sc_pc = "returned"
    /\ IsSome(sc_result)
    /\ Unwrap(sc_result).branch = "total internal reflection"

----------------------------------------------------------------------------
(* Claims about the record of Cube::hit *)

\* a texture coordinate <<numerator, denominator>> lies in [0, 1)
InUnitRange(q) == q[2] > 0 /\ 0 <= q[1] /\ q[1] < q[2]

\* C13: every HitRecord returned by Cube::hit has texture coordinates u and
\* v in the half-open range [0, 1), for every box with min < max on all
\* axes and every ray that hits it.
C13_UvInUnitRange ==
    (cpc = "returned" /\ IsSome(result)) =>
        (InUnitRange(Unwrap(result).u) /\ InUnitRange(Unwrap(result).v))

\* p lies outside box c, its surface included
StrictlyOutside(c, p) == \E i \in Axes : p[i] < c.min[i] \/ p[i] > c.max[i]

\* C15: for every HitRecord returned by Cube::hit, whether the ray started
\* outside the box or inside it, the hit point lies on the surface of the
\* box, on a face perpendicular to the axis of the returned normal; and a
\* ray that started outside is given the outward normal of the face it
\* struck, with front_face set.
C15_HitOnFaceOfNormal ==
    (cpc = "returned" /\ IsSome(result)) =>
        LET h == Unwrap(result)
        IN  /\ OnSurface(cube, h.point)
            /\ \E i \in Axes :
                  /\ h.normal[i] # 0
                  /\ \A j \in Axes \ {i} : h.normal[j] = 0
                  /\ h.point[i] = cube.min[i] \/ h.point[i] = cube.max[i]
            /\ StrictlyOutside(cube, ray.origin) =>
                  /\ h.front_face
                  /\ \A i \in Axes :
                        /\ h.normal[i] = 1 => h.point[i] = cube.max[i]
                        /\ h.normal[i] = -1 => h.point[i] = cube.min[i]

----------------------------------------------------------------------------
(* Claims about Skybox::sample *)

\* the direction of the last call lies outside the sun disk and its glow
OutsideSunAndGlow ==
    FDot(Normalize(sky_call.direction), sky_call.sky.sun_direction)
        <= ONE - 3 * sky_call.sky.sun_size

\* C14: Skybox::sample of a direction with y = 0 returns exactly
\* horizon_color when the direction is outside the sun disk and the glow;
\* the formula of the lower half at its end (lower_t = 1) and the formula of
\* the upper half at its start (upper_t = 0) give the same colour.
C14_HorizonAtMidpoint ==
    (sky_pc = "returned" /\ sky_call.direction[2] = 0) =>
        /\ OutsideSunAndGlow => sky_result = sky_call.sky.horizon_color
        /\ Add(Scale(0, sky_call.sky.bottom_color), Scale(ONE, sky_call.sky.horizon_color))
              = Add(Scale(ONE, sky_call.sky.horizon_color), Scale(0, sky_call.sky.top_color))

\* a level direction that is not along an axis, away from a sun that stands
\* on the horizon too
C14_Witness ==
    /\ sky_pc = "returned"
    /\ sky_call.direction = <<-ONE, 0, ONE \div 2>>
    /\ sky_call.sky.sun_direction[2] = 0
    /\ OutsideSunAndGlow
    /\ sky_result = sky_call.sky.horizon_color

----------------------------------------------------------------------------
(* Claims about the loop of main *)

\* every row of the displayed image was rendered from the camera as it is now
ImageShowsCamera ==
    /\ Len(image) = RenderRows
    /\ \A i \in 1..Len(image) : image[i] = camera

\* C16: in the loop of main, camera mutations and rendering never
\* interleave.  The camera changes, and rotate or zoom is called, only in
\* the input part of an iteration and before that iteration's render; while
\* render runs, every row it has produced was read from the camera as it
\* still is; and an iteration in which rotate or zoom was called has, when
\* it draws, rendered in that same iteration and shows an image of the
\* camera after the last mutation.
C16_RenderFollowsMutation ==
    /\ [][ (camera' # camera \/ (mutated' /\ ~mutated))
             => /\ loop_pc \in {"mouse", "wheel", "auto"}
                /\ ~rendered
                /\ loop_pc' # "render" ]_vars
    /\ [](loop_pc = "render" => \A i \in 1..Len(pixels) : pixels[i] = camera)
    /\ []((loop_pc = "draw" /\ mutated) => (rendered /\ ImageShowsCamera))

\* an iteration that has turned and zoomed the camera of main is about to
\* draw
C16_Witness ==
    /\ loop_pc = "draw"
    /\ mutated
    /\ rendered
    /\ camera.theta # MainCamera.theta
    /\ camera.distance # MainCamera.distance
    /\ ImageShowsCamera

====
